---- MODULE Spec2Model ----
\* The translation pipeline of src/main.rs: lexer, parser, generate_js, run by
\* main on one source text.  Text is a sequence of one-character strings.
EXTENDS Integers, Sequences, FiniteSets, TLC

VARIABLES code, tokens, pos, ast, js_code, pc

vars == <<code, tokens, pos, ast, js_code, pc>>

\* ------------------------------------------------------------- characters

LowerCase == {"a","b","c","d","e","f","g","h","i","j","k","l","m",
              "n","o","p","q","r","s","t","u","v","w","x","y","z"}

UpperCase == {"A","B","C","D","E","F","G","H","I","J","K","L","M",
              "N","O","P","Q","R","S","T","U","V","W","X","Y","Z"}

DigitChars == <<"0","1","2","3","4","5","6","7","8","9">>

IsWhitespace(ch) == ch \in {" ", "\t", "\n", "\r"}

IsLetter(ch) == ch \in LowerCase \cup UpperCase

IsDigit(ch) == \E k \in 1..10 : DigitChars[k] = ch

digitValue(ch) == (CHOOSE k \in 1..10 : DigitChars[k] = ch) - 1

I32Max == 2147483647

\* ----------------------------------------------------------------- tokens

TVar == [type |-> "Var"]
TMut == [type |-> "Mut"]
TPrint == [type |-> "Print"]
TEquals == [type |-> "Equals"]
TSemicolon == [type |-> "Semicolon"]
TOpenBrace == [type |-> "OpenBrace"]
TCloseBrace == [type |-> "CloseBrace"]
TIdentifier(name) == [type |-> "Identifier", name |-> name]
TStringLiteral(s) == [type |-> "StringLiteral", value |-> s]
TIntLiteral(i) == [type |-> "IntLiteral", value |-> i]

kwVar == <<"v","a","r">>
kwMut == <<"m","u","t">>
kwPrint == <<"p","r","i","n","t">>

\* ------------------------------------------------------------------ lexer

\* First index after the maximal run of ASCII letters that starts at i.
RECURSIVE nameEndWs(_, _)
nameEndWs(input, i) ==
    IF i <= Len(input) /\ (IsLetter(input[i]) \/ input[i] = " ")
    THEN nameEndWs(input, i + 1) ELSE i

RECURSIVE nameEnd(_, _)
nameEnd(input, i) ==
    IF i <= Len(input) /\ IsLetter(input[i]) THEN nameEnd(input, i + 1) ELSE i

\* Index of the closing quote of the literal whose body starts at i, or
\* Len(input) + 1 when the input ends first.
RECURSIVE stringEnd(_, _)
stringEnd(input, i) ==
    IF i <= Len(input) /\ input[i] # "\"" THEN stringEnd(input, i + 1) ELSE i

RECURSIVE numberEnd(_, _)
numberEnd(input, i) ==
    IF i <= Len(input) /\ IsDigit(input[i]) THEN numberEnd(input, i + 1) ELSE i

\* str::parse::<i32> of a digit run: checked multiply and add, Err on overflow.
ParseErr == [ok |-> FALSE, value |-> 0]

RECURSIVE parseFrom(_, _, _)
parseFrom(number, k, acc) ==
    IF k > Len(number) THEN [ok |-> TRUE, value |-> acc]
    ELSE LET d == digitValue(number[k]) IN
         IF acc > I32Max \div 10 THEN ParseErr
         ELSE IF acc * 10 > I32Max - d THEN ParseErr
         ELSE parseFrom(number, k + 1, acc * 10 + d)

RECURSIVE parseSaturating(_, _, _)
parseSaturating(number, k, acc) ==
    IF k > Len(number) THEN [ok |-> TRUE, value |-> acc]
    ELSE LET d == digitValue(number[k]) IN
         IF acc > I32Max \div 10 THEN [ok |-> TRUE, value |-> I32Max]
         ELSE IF acc * 10 > I32Max - d THEN [ok |-> TRUE, value |-> I32Max]
         ELSE parseSaturating(number, k + 1, acc * 10 + d)

parseI32Saturating(number) == parseSaturating(number, 1, 0)

parseI32(number) == parseFrom(number, 1, 0)

\* The tokens pushed for one letter run: the print test is an if of its
\* own, followed by the var / mut / identifier chain.
wordTokensElseIf(name) ==
    IF name = kwPrint THEN <<TPrint>>
    ELSE IF name = kwVar THEN <<TVar>>
    ELSE IF name = kwMut THEN <<TMut>>
    ELSE <<TIdentifier(name)>>

wordTokens(name) ==
    (IF name = kwPrint THEN <<TPrint>> ELSE <<>>)
    \o (IF name = kwVar THEN <<TVar>>
        ELSE IF name = kwMut THEN <<TMut>>
        ELSE <<TIdentifier(name)>>)

\* One iteration of the lexer's outer loop at position i: the position the
\* next iteration starts at, the tokens pushed, and whether parse().unwrap()
\* succeeded.
lexStep(input, i) ==
    LET ch == input[i] IN
    IF IsWhitespace(ch) THEN [next |-> i + 1, toks |-> <<>>, ok |-> TRUE]
    ELSE IF IsLetter(ch) THEN
        LET j == nameEnd(input, i) IN
        [next |-> j, toks |-> wordTokens(SubSeq(input, i, j - 1)), ok |-> TRUE]
    ELSE IF ch = "\"" THEN
        LET j == stringEnd(input, i + 1) IN
        [next |-> IF j <= Len(input) THEN j + 1 ELSE j,
         toks |-> <<TStringLiteral(SubSeq(input, i + 1, j - 1))>>, ok |-> TRUE]
    ELSE IF IsDigit(ch) THEN
        LET j == numberEnd(input, i)
            r == parseI32(SubSeq(input, i, j - 1)) IN
        [next |-> j, toks |-> <<TIntLiteral(r.value)>>, ok |-> r.ok]
    ELSE IF ch = "=" THEN [next |-> i + 1, toks |-> <<TEquals>>, ok |-> TRUE]
    ELSE IF ch = ";" THEN [next |-> i + 1, toks |-> <<TSemicolon>>, ok |-> TRUE]
    ELSE IF ch = "{" THEN [next |-> i + 1, toks |-> <<TOpenBrace>>, ok |-> TRUE]
    ELSE IF ch = "}" THEN [next |-> i + 1, toks |-> <<TCloseBrace>>, ok |-> TRUE]
    ELSE [next |-> i + 1, toks |-> <<>>, ok |-> TRUE]

RECURSIVE lexFrom(_, _, _)
lexFrom(input, i, toks) ==
    IF i > Len(input) THEN [ok |-> TRUE, tokens |-> toks]
    ELSE LET s == lexStep(input, i) IN
         IF ~s.ok THEN [ok |-> FALSE, tokens |-> <<>>]
         ELSE lexFrom(input, s.next, toks \o s.toks)

\* lexer(input): ok = FALSE stands for the panic of unwrap() on an
\* out-of-range digit run.
lexer(input) == lexFrom(input, 1, <<>>)

\* The positions at which the lexer's outer loop peeks, in order; the last
\* one is Len(input) + 1, where peek() returns None.
RECURSIVE headsFrom(_, _, _)
headsFrom(input, i, acc) ==
    IF i > Len(input) THEN Append(acc, i)
    ELSE headsFrom(input, lexStep(input, i).next, Append(acc, i))

lexHeads(input) == headsFrom(input, 1, <<>>)

\* ----------------------------------------------------------------- parser

VStr(s) == [kind |-> "Str", str |-> s]
VInt(i) == [kind |-> "Int", int |-> i]

VariableDeclaration(m, n, v) ==
    [stmt |-> "VariableDeclaration", mutable |-> m, name |-> n, value |-> v]

FunctionCall(n, args) ==
    [stmt |-> "FunctionCall", name |-> n, arguments |-> args]

IsLiteral(tok) == tok.type \in {"StringLiteral", "IntLiteral"}

\* The ValueType built from a literal token.
valueOf(tok) ==
    IF tok.type = "StringLiteral" THEN VStr(tok.value) ELSE VInt(tok.value)

\* The cursor after k more calls of tokens.next(): an exhausted iterator
\* keeps returning None.
advance(toks, p, k) == IF p + k > Len(toks) + 1 THEN Len(toks) + 1 ELSE p + k

Panic(p, a) == [panic |-> TRUE, pos |-> p, ast |-> a]

\* The Token::Var arm; p is the index of the Var token.
parseVarLenient(toks, p, a) ==
    LET is_mut == p + 1 <= Len(toks) /\ toks[p + 1] = TMut
        pi == IF is_mut THEN p + 2 ELSE p + 1
        pv == pi + 2
    IN  IF pi <= Len(toks) /\ toks[pi].type = "Identifier"
        THEN IF pv <= Len(toks) /\ IsLiteral(toks[pv])
             THEN [panic |-> FALSE, pos |-> advance(toks, pv, 2),
                   ast |-> Append(a, VariableDeclaration(is_mut, toks[pi].name,
                                                         valueOf(toks[pv])))]
             ELSE [panic |-> FALSE, pos |-> advance(toks, pv, 2), ast |-> a]
        ELSE [panic |-> FALSE, pos |-> advance(toks, pi, 1), ast |-> a]

parseVarNoMut(toks, p, a) ==
    LET is_mut == p + 1 <= Len(toks) /\ toks[p + 1] = TMut
        pi == IF is_mut THEN p + 2 ELSE p + 1
        pv == pi + 2
    IN  IF pi <= Len(toks) /\ toks[pi].type = "Identifier"
        THEN IF pv <= Len(toks) /\ IsLiteral(toks[pv])
             THEN [panic |-> FALSE, pos |-> advance(toks, pv, 2),
                   ast |-> Append(a, VariableDeclaration(FALSE, toks[pi].name,
                                                         valueOf(toks[pv])))]
             ELSE Panic(p, a)
        ELSE Panic(p, a)

parseVar(toks, p, a) ==
    LET is_mut == p + 1 <= Len(toks) /\ toks[p + 1] = TMut
        pi == IF is_mut THEN p + 2 ELSE p + 1
        pv == pi + 2
    IN  IF pi <= Len(toks) /\ toks[pi].type = "Identifier"
        THEN IF pv <= Len(toks) /\ IsLiteral(toks[pv])
             THEN [panic |-> FALSE, pos |-> advance(toks, pv, 2),
                   ast |-> Append(a, VariableDeclaration(is_mut, toks[pi].name,
                                                         valueOf(toks[pv])))]
             ELSE Panic(p, a)
        ELSE Panic(p, a)

\* The Token::Print arm; p is the index of the Print token.  The token at
\* p + 1 is consumed unread, the one at p + 2 is the argument, the one at
\* p + 3 is consumed unread.
parsePrint(toks, p, a) ==
    LET pa == p + 2
    IN  IF pa <= Len(toks) /\ IsLiteral(toks[pa])
        THEN [panic |-> FALSE, pos |-> advance(toks, pa, 2),
              ast |-> Append(a, FunctionCall(kwPrint, <<valueOf(toks[pa])>>))]
        ELSE Panic(p, a)

\* One iteration of the parser's loop with the cursor at p <= Len(toks).
parserStep(toks, p, a) ==
    IF toks[p] = TVar THEN parseVar(toks, p, a)
    ELSE IF toks[p] = TPrint THEN parsePrint(toks, p, a)
    ELSE [panic |-> FALSE, pos |-> p + 1, ast |-> a]

RECURSIVE parseFromPos(_, _, _)
parseFromPos(toks, p, a) ==
    IF p > Len(toks) THEN [ok |-> TRUE, ast |-> a]
    ELSE LET r == parserStep(toks, p, a) IN
         IF r.panic THEN [ok |-> FALSE, ast |-> <<>>]
         ELSE parseFromPos(toks, r.pos, r.ast)

parser(toks) == parseFromPos(toks, 1, <<>>)

\* --------------------------------------------------------- code generator

RECURSIVE splitFrom(_, _, _, _)
splitFrom(s, i, cur, acc) ==
    IF i > Len(s) THEN Append(acc, cur)
    ELSE IF s[i] \in {"{", "}"} THEN splitFrom(s, i + 1, <<>>, Append(acc, cur))
    ELSE splitFrom(s, i + 1, Append(cur, s[i]), acc)

\* s.split(|c| c == '{' || c == '}')
split(s) == splitFrom(s, 1, <<>>, <<>>)

\* str::replace: every non-overlapping match of from, left to right.
RECURSIVE replaceFrom(_, _, _, _, _)
replaceFrom(str, i, from, to, acc) ==
    IF i > Len(str) THEN acc
    ELSE IF i + Len(from) - 1 <= Len(str) /\ SubSeq(str, i, i + Len(from) - 1) = from
         THEN replaceFrom(str, i + Len(from), from, to, acc \o to)
         ELSE replaceFrom(str, i + 1, from, to, Append(acc, str[i]))

replace(str, from, to) == replaceFrom(str, 1, from, to, <<>>)

\* lexer(segment).first() == Some(&Token::Identifier(segment.to_string()))
isPlaceholderAnyIdent(segment) ==
    LET r == lexer(segment) IN
    Len(r.tokens) >= 1 /\ r.tokens[1].type = "Identifier"

isPlaceholder(segment) ==
    LET r == lexer(segment) IN
    Len(r.tokens) >= 1 /\ r.tokens[1] = TIdentifier(segment)

\* The loop over the segments of s, rewriting interpolated_str in place.
RECURSIVE interpolateFrom(_, _, _)
interpolateFrom(segs, k, cur) ==
    IF k > Len(segs) THEN [ok |-> TRUE, str |-> cur]
    ELSE IF ~lexer(segs[k]).ok THEN [ok |-> FALSE, str |-> <<>>]
    ELSE IF isPlaceholder(segs[k])
         THEN interpolateFrom(segs, k + 1,
                  replace(cur, <<"{">> \o segs[k] \o <<"}">>,
                               <<"$", "{">> \o segs[k] \o <<"}">>))
         ELSE interpolateFrom(segs, k + 1, cur)

interpolate(s) == interpolateFrom(split(s), 1, s)

\* Display of an i32 (never negative here: the lexer has no sign).
RECURSIVE toDecimal(_)
toDecimal(i) ==
    IF i < 10 THEN <<DigitChars[i + 1]>>
    ELSE Append(toDecimal(i \div 10), DigitChars[(i % 10) + 1])

kwLet == <<"l","e","t">>
kwConst == <<"c","o","n","s","t">>
\* The backquote character.  It is written by name: inside a TLA+ string the
\* character itself opens a quoted span.
Backquote == "backquote"

consoleLogOpen == <<"c","o","n","s","o","l","e",".","l","o","g","(", Backquote>>
consoleLogClose == <<Backquote, ")", "\n">>

varTypeSwapped(mutable) == IF mutable THEN kwConst ELSE kwLet

varType(mutable) == IF mutable THEN kwLet ELSE kwConst

declarationLine(d) ==
    IF d.value.kind = "Str"
    THEN varType(d.mutable) \o <<" ">> \o d.name \o <<" ", "=", " ", "'">>
         \o d.value.str \o <<"'", "\n">>
    ELSE varType(d.mutable) \o <<" ">> \o d.name \o <<" ", "=", " ">>
         \o toDecimal(d.value.int) \o <<"\n">>

\* The loop over call.arguments: a Str argument adds its console.log line,
\* any other argument adds nothing; ok = FALSE when the re-lexing of a
\* segment panics.
RECURSIVE argumentsFrom(_, _, _)
argumentsFrom(args, k, out) ==
    IF k > Len(args) THEN [ok |-> TRUE, text |-> out]
    ELSE IF args[k].kind = "Str"
    THEN LET r == interpolate(args[k].str) IN
         IF ~r.ok THEN [ok |-> FALSE, text |-> <<>>]
         ELSE argumentsFrom(args, k + 1,
                            out \o consoleLogOpen \o r.str \o consoleLogClose)
    ELSE argumentsFrom(args, k + 1, out)

\* The text one statement adds to js_code.
statementText(st) ==
    IF st.stmt = "VariableDeclaration" THEN [ok |-> TRUE, text |-> declarationLine(st)]
    ELSE IF st.name = kwPrint THEN argumentsFrom(st.arguments, 1, <<>>)
    ELSE [ok |-> TRUE, text |-> <<>>]

RECURSIVE generateFrom(_, _, _)
generateFrom(a, k, out) ==
    IF k > Len(a) THEN [ok |-> TRUE, text |-> out]
    ELSE LET r == statementText(a[k]) IN
         IF ~r.ok THEN [ok |-> FALSE, text |-> <<>>]
         ELSE generateFrom(a, k + 1, out \o r.text)

generate_js(a) == generateFrom(a, 1, <<>>)

\* ----------------------------------------------------------------- inputs

MaxStmts == 2
MaxTruncStmts == 2
MaxChunks == 2
MaxRunLen == 2

RECURSIVE Concat(_)
Concat(ss) == IF ss = <<>> THEN <<>> ELSE Head(ss) \o Concat(Tail(ss))

\* The sequences over S of length at most n.
RECURSIVE SeqsUpTo(_, _)
SeqsUpTo(S, n) ==
    IF n = 0 THEN {<<>>}
    ELSE LET R == SeqsUpTo(S, n - 1) IN R \cup {Append(r, x) : r \in R, x \in S}

Prefixes(s) == {SubSeq(s, 1, k) : k \in 0..Len(s)}

\* Well-formed statements.
stVarName == <<"v","a","r"," ","n","a","m","e"," ","="," ","\"","A","l","i","c","e","\"",";">>
stVarMut == <<"v","a","r"," ","m","u","t"," ","n"," ","="," ","5",";">>
stPrintHello == <<"p","r","i","n","t","(","\"","H","e","l","l","o"," ","{","n","a","m","e","}","\"",")">>
stPrintHelloSemi == <<"p","r","i","n","t","(","\"","H","e","l","l","o"," ","{","n","a","m","e","}","\"",")",";">>
stPrintInt == <<"p","r","i","n","t","(","7",")">>

Statements == {stVarName, stVarMut, stPrintHello, stPrintHelloSemi, stPrintInt}

\* A program of several statements, one per line.
RECURSIVE JoinLines(_)
JoinLines(ss) ==
    IF ss = <<>> THEN <<>>
    ELSE IF Len(ss) = 1 THEN Head(ss)
    ELSE Head(ss) \o <<"\n">> \o JoinLines(Tail(ss))

StmtSeqs == SeqsUpTo(Statements, MaxStmts)

StmtSources == {JoinLines(ss) : ss \in StmtSeqs}

\* Programs cut off at any character.
TruncSources ==
    UNION {Prefixes(JoinLines(ss)) : ss \in SeqsUpTo(Statements, MaxTruncStmts)}

\* Declarations var [mut] <name> = <literal>;
DeclNames == {<<"x">>, <<"n","a","m","e">>, <<"v","a","r","x">>, <<"P","r","i","n","t">>, <<"m","u","t","a","b","l","e">>}

DeclStrings == {<<>>, <<"A","l","i","c","e">>, <<"a"," ","b">>, <<"1","2">>, <<"v","a","r">>, <<"{","x","}">>, <<"x",";","y","=","(","1",")">>}

DeclDigits == {<<"0">>, <<"5">>, <<"0","0","7">>, <<"4","2">>, <<"2","1","4","7","4","8","3","6","4","7">>}

DeclLiterals ==
    {[isStr |-> TRUE, text |-> s] : s \in DeclStrings}
    \cup {[isStr |-> FALSE, text |-> s] : s \in DeclDigits}

DeclChoices ==
    [mutable : BOOLEAN, name : DeclNames, lit : DeclLiterals, tight : BOOLEAN]

literalText(lit) ==
    IF lit.isStr THEN <<"\"">> \o lit.text \o <<"\"">> ELSE lit.text

declSource(d) ==
    kwVar \o <<" ">> \o (IF d.mutable THEN kwMut \o <<" ">> ELSE <<>>) \o d.name
    \o (IF d.tight THEN <<"=">> ELSE <<" ", "=", " ">>)
    \o literalText(d.lit) \o <<";">>

DeclSources == {declSource(d) : d \in DeclChoices}

\* print("<s>") for strings s made of chunks: a segment, a segment in braces,
\* or a lone brace.
Segments == {<<>>, <<"a">>, <<"b">>, <<"1">>, <<"a"," ","b">>, <<" ","a">>, <<"a"," ">>, <<"v","a","r">>, <<"m","u","t">>, <<"p","r","i","n","t">>}

Chunks ==
    Segments \cup {<<"{">> \o s \o <<"}">> : s \in Segments} \cup {<<"{">>, <<"}">>}

InterpStrings == {Concat(cs) : cs \in SeqsUpTo(Chunks, MaxChunks)}

printSource(s) == kwPrint \o <<"(", "\"">> \o s \o <<"\"", ")">>

InterpSources == {printSource(s) : s \in InterpStrings}

\* Digit runs: every short run, and runs around the i32 limit.
DigitSet == {DigitChars[k] : k \in 1..10}

ShortRuns == SeqsUpTo(DigitSet, MaxRunLen) \ {<<>>}

LimitRuns == {<<"2","1","4","7","4","8","3","6","4","7">>, <<"2","1","4","7","4","8","3","6","4","8">>, <<"2","1","4","7","4","8","3","6","5","0">>, <<"0","2","1","4","7","4","8","3","6","4","7">>, <<"0","0","2","1","4","7","4","8","3","6","4","8">>, <<"2","1","4","7","4","8","3","6","3","9">>, <<"3","0","0","0","0","0","0","0","0","0">>, <<"9","9","9","9","9","9","9","9","9","9">>, <<"9","9","9","9","9","9","9","9","9","9","9">>, <<"0","0","0","0","0","0","0","0","0","0","0","0","1">>}

DigitRuns == ShortRuns \cup LimitRuns

DigitSources ==
    DigitRuns
    \cup {<<"v","a","r"," ","n"," ","="," ">> \o r \o <<";">> : r \in DigitRuns}
    \cup {r \o <<" ">> \o q : r \in LimitRuns, q \in LimitRuns}
    \cup {printSource(<<"{">> \o r \o <<"}">>) : r \in LimitRuns}

Programs ==
    StmtSources \cup TruncSources \cup DeclSources \cup InterpSources
    \cup DigitSources

\* ------------------------------------------------------------------- main

Init ==
    /\ code \in Programs
    /\ tokens = <<>>
    /\ pos = 1
    /\ ast = <<>>
    /\ js_code = <<>>
    /\ pc = "start"

\* let tokens = lexer(&code);
Lex ==
    /\ pc = "start"
    /\ lexer(code).ok
    /\ tokens' = lexer(code).tokens
    /\ pc' = "parsing"
    /\ UNCHANGED <<code, pos, ast, js_code>>

LexPanic ==
    /\ pc = "start"
    /\ ~lexer(code).ok
    /\ pc' = "lex_panic"
    /\ UNCHANGED <<code, tokens, pos, ast, js_code>>

\* One iteration of the loop of parser(&tokens): the Token::Var arm, the
\* Token::Print arm and the arm of every other token, when they do not panic.
ParseVar ==
    /\ pc = "parsing"
    /\ pos <= Len(tokens)
    /\ tokens[pos] = TVar
    /\ ~parserStep(tokens, pos, ast).panic
    /\ pos' = parserStep(tokens, pos, ast).pos
    /\ ast' = parserStep(tokens, pos, ast).ast
    /\ UNCHANGED <<code, tokens, js_code, pc>>

ParsePrint ==
    /\ pc = "parsing"
    /\ pos <= Len(tokens)
    /\ tokens[pos] = TPrint
    /\ ~parserStep(tokens, pos, ast).panic
    /\ pos' = parserStep(tokens, pos, ast).pos
    /\ ast' = parserStep(tokens, pos, ast).ast
    /\ UNCHANGED <<code, tokens, js_code, pc>>

ParseSkip ==
    /\ pc = "parsing"
    /\ pos <= Len(tokens)
    /\ tokens[pos] \notin {TVar, TPrint}
    /\ pos' = parserStep(tokens, pos, ast).pos
    /\ ast' = parserStep(tokens, pos, ast).ast
    /\ UNCHANGED <<code, tokens, js_code, pc>>

\* panic! in the Var or the Print arm.
ParsePanic ==
    /\ pc = "parsing"
    /\ pos <= Len(tokens)
    /\ parserStep(tokens, pos, ast).panic
    /\ pc' = "parse_panic"
    /\ UNCHANGED <<code, tokens, pos, ast, js_code>>

ParseDone ==
    /\ pc = "parsing"
    /\ pos > Len(tokens)
    /\ pc' = "parsed"
    /\ UNCHANGED <<code, tokens, pos, ast, js_code>>

\* let js_code = generate_js(&ast);
Generate ==
    /\ pc = "parsed"
    /\ generate_js(ast).ok
    /\ js_code' = generate_js(ast).text
    /\ pc' = "done"
    /\ UNCHANGED <<code, tokens, pos, ast>>

GeneratePanic ==
    /\ pc = "parsed"
    /\ ~generate_js(ast).ok
    /\ pc' = "generate_panic"
    /\ UNCHANGED <<code, tokens, pos, ast, js_code>>

Next ==
    \/ Lex
    \/ LexPanic
    \/ ParseVar
    \/ ParsePrint
    \/ ParseSkip
    \/ ParsePanic
    \/ ParseDone
    \/ Generate
    \/ GeneratePanic

Spec == Init /\ [][Next]_vars

\* ----------------------------------------------------------------- claims

AfterLex == pc \notin {"start", "lex_panic"}

Range(f) == {f[k] : k \in DOMAIN f}

\* The runs the lexer scans from a loop position whose character is in class
\* Cls: the maximal letter runs, or digit runs, outside string literals.
RECURSIVE runEnd(_, _, _)
runEnd(input, i, Cls) ==
    IF i <= Len(input) /\ input[i] \in Cls THEN runEnd(input, i + 1, Cls) ELSE i

RunsOf(input, Cls) ==
    LET hs == SelectSeq(lexHeads(input),
                        LAMBDA i : i <= Len(input) /\ input[i] \in Cls)
    IN  [k \in 1..Len(hs) |-> SubSeq(input, hs[k], runEnd(input, hs[k], Cls) - 1)]

\* C1: for every input, lexer emits exactly one token for each maximal run
\* of ASCII letters: Print for print, Var for var, Mut for mut, Identifier(run)
\* otherwise; the run print never produces Identifier(print).
OneWordToken(run) ==
    IF run = kwPrint THEN TPrint
    ELSE IF run = kwVar THEN TVar
    ELSE IF run = kwMut THEN TMut
    ELSE TIdentifier(run)

IsWordToken(tok) == tok.type \in {"Print", "Var", "Mut", "Identifier"}

C1_OneTokenPerLetterRun ==
    AfterLex =>
        LET runs == RunsOf(code, LowerCase \cup UpperCase) IN
        SelectSeq(tokens, IsWordToken)
            = [k \in 1..Len(runs) |-> OneWordToken(runs[k])]

\* C2: the pipeline on var name = "Alice"; followed by print("Hello {name}")
\* does not abort, the AST is the declaration of name followed by the print
\* call with the single argument Str("Hello {name}"), and the generated print
\* line is console.log of the template Hello ${name}.
C2Source == JoinLines(<<stVarName, stPrintHello>>)

C2Ast ==
    <<VariableDeclaration(FALSE, <<"n","a","m","e">>, VStr(<<"A","l","i","c","e">>)),
      FunctionCall(kwPrint, <<VStr(<<"H","e","l","l","o"," ","{","n","a","m","e","}">>)>>)>>

C2Js ==
    <<"c","o","n","s","t"," ","n","a","m","e"," ","="," ","'","A","l","i","c","e","'","\n">>
    \o <<"c","o","n","s","o","l","e",".","l","o","g","(",Backquote,"H","e","l","l","o"," ","$","{","n","a","m","e","}",Backquote,")","\n">>

C2_HelloName ==
    code = C2Source =>
        /\ pc \notin {"lex_panic", "parse_panic", "generate_panic"}
        /\ pc \in {"parsed", "done"} => ast = C2Ast
        /\ pc = "done" => js_code = C2Js

C2_Witness == code = C2Source /\ pc = "done" /\ Len(ast) = 2

\* Base-10 value of a digit run, by the weight of each position.
RECURSIVE Pow10(_)
Pow10(n) == IF n = 0 THEN 1 ELSE 10 * Pow10(n - 1)

RECURSIVE PositionalSum(_, _)
PositionalSum(run, k) ==
    IF k > Len(run) THEN 0
    ELSE (IF run[k] = "0" THEN 0 ELSE digitValue(run[k]) * Pow10(Len(run) - k))
         + PositionalSum(run, k + 1)

DecimalValue(run) == PositionalSum(run, 1)

\* C3: for every well-formed declaration var [mut] <name> = <literal>;
\* lexer then parser yields exactly one statement, a VariableDeclaration with
\* that name, the value Str(text) or Int(n) of the literal, and mutable true
\* iff mut follows var.
DeclTable == {<<declSource(d), d>> : d \in DeclChoices}

DeclValue(lit) ==
    IF lit.isStr THEN VStr(lit.text) ELSE VInt(DecimalValue(lit.text))

C3_Declaration ==
    \A e \in DeclTable :
        code = e[1] =>
            /\ pc \notin {"lex_panic", "parse_panic"}
            /\ pc \in {"parsed", "done"} =>
                 ast = <<VariableDeclaration(e[2].mutable, e[2].name,
                                             DeclValue(e[2].lit))>>

C3_Witness ==
    /\ pc = "parsed"
    /\ code = <<"v","a","r"," ","m","u","t"," ","v","a","r","x","=","0","0","7",";">>
    /\ ast = <<VariableDeclaration(TRUE, <<"v","a","r","x">>, VInt(7))>>

\* A bare identifier, by character class: a non-empty run of letters that is
\* not one of the reserved words.
BareIdentifier(seg) ==
    /\ seg # <<>>
    /\ \A k \in 1..Len(seg) : seg[k] \in LowerCase \cup UpperCase
    /\ seg \notin {kwVar, kwMut, kwPrint}

\* s starts with {seg} for a segment seg that is a bare identifier.
StartsWithPlaceholder(s) ==
    /\ s # <<>>
    /\ s[1] = "{"
    /\ \E j \in 2..Len(s) :
        /\ s[j] = "}"
        /\ \A k \in 2..(j - 1) : s[k] \notin {"{", "}"}
        /\ BareIdentifier(SubSeq(s, 2, j - 1))

\* s with a single $ put before every {seg} whose seg is a bare identifier.
RECURSIVE SplicedOnce(_)
SplicedOnce(s) ==
    IF s = <<>> THEN <<>>
    ELSE IF StartsWithPlaceholder(s) THEN <<"$", "{">> \o SplicedOnce(Tail(s))
    ELSE <<Head(s)>> \o SplicedOnce(Tail(s))

IsPrintOfString == Len(ast) = 1 /\ ast[1].stmt = "FunctionCall"
                   /\ ast[1].arguments[1].kind = "Str"

PrintedString == ast[1].arguments[1].str

\* The text between console.log( backquote and backquote ) newline.
PrintedTemplate ==
    SubSeq(js_code, Len(consoleLogOpen) + 1, Len(js_code) - Len(consoleLogClose))

\* C4: for every print string s the rewritten string is s with every {seg},
\* seg a bare identifier, replaced by exactly ${seg}, once relative to the
\* original string, also when the same identifier occurs in several segments.
C4_SplicedExactlyOnce ==
    pc = "done" /\ IsPrintOfString =>
        js_code = consoleLogOpen \o SplicedOnce(PrintedString) \o consoleLogClose

\* out is s with nothing changed but $ characters put in front of
\* placeholders.
RECURSIVE OnlyPlaceholdersMarked(_, _)
OnlyPlaceholdersMarked(s, out) ==
    IF out = <<>> THEN s = <<>>
    ELSE IF Head(out) = "$" /\ StartsWithPlaceholder(s)
         THEN OnlyPlaceholdersMarked(s, Tail(out))
         ELSE s # <<>> /\ Head(s) = Head(out)
              /\ OnlyPlaceholdersMarked(Tail(s), Tail(out))

\* C5: a brace-delimited segment of a print string that is not in full a
\* single identifier (empty, digits, several words, leading or trailing
\* whitespace, a reserved word) is never rewritten: the output is the input
\* with $ added only in front of {seg} for seg a bare identifier.
C5_NonIdentifiersUntouched ==
    pc = "done" /\ IsPrintOfString =>
        /\ Len(js_code) >= Len(consoleLogOpen) + Len(consoleLogClose)
        /\ OnlyPlaceholdersMarked(PrintedString, PrintedTemplate)

C5_Witness ==
    /\ pc = "done"
    /\ IsPrintOfString
    /\ PrintedString = <<"{","a"," ","b","}","{","a","}">>
    /\ PrintedTemplate = <<"{","a"," ","b","}","$","{","a","}">>

\* input with the whitespace w put in front of position p (after the end
\* when p = Len(input) + 1).
InsertAt(input, p, w) ==
    SubSeq(input, 1, p - 1) \o w \o SubSeq(input, p, Len(input))

WsStrings == {<<" ">>, <<"\t">>, <<"\n">>, <<"\r">>, <<" ", " ">>, <<"\n", "\t", " ">>}

\* The result of lexer then parser on input.
LexThenParse(input) ==
    LET l == lexer(input) IN
    IF ~l.ok THEN [stage |-> "lex_panic", tokens |-> <<>>, ast |-> <<>>]
    ELSE LET a == parser(l.tokens) IN
         IF ~a.ok THEN [stage |-> "parse_panic", tokens |-> l.tokens, ast |-> <<>>]
         ELSE [stage |-> "parsed", tokens |-> l.tokens, ast |-> a.ast]

\* What the run of the program on code came to, once lexer and parser are
\* through.
RunResult ==
    [stage |-> pc,
     tokens |-> tokens,
     ast |-> IF pc = "parsed" THEN ast ELSE <<>>]

QuoteCount(input) == Len(SelectSeq(input, LAMBDA c : c = "\""))

EndsInOpenString(input) == QuoteCount(input) % 2 = 1

\* C6 as stated: whitespace inserted between two adjacent tokens of a source,
\* or at its start or end, changes neither the token sequence nor the AST.
C6_WhitespaceAnywhere ==
    pc \in {"lex_panic", "parse_panic", "parsed"} /\ code \in TruncSources =>
        \A p \in Range(lexHeads(code)) : \A w \in WsStrings :
            LexThenParse(InsertAt(code, p, w)) = RunResult

\* C6 amended: the same, except at the end of a source that ends inside an
\* unterminated string literal, where the whitespace joins the literal.
C6_WhitespaceBetweenTokens ==
    pc \in {"lex_panic", "parse_panic", "parsed"} /\ code \in TruncSources =>
        \A p \in Range(lexHeads(code)) : \A w \in WsStrings :
            ~(p = Len(code) + 1 /\ EndsInOpenString(code)) =>
                LexThenParse(InsertAt(code, p, w)) = RunResult

C6_Witness ==
    /\ pc = "parsed"
    /\ code = stVarMut
    /\ Len(tokens) = 6
    /\ Cardinality(Range(lexHeads(code))) > Len(tokens)
    /\ Len(ast) = 1

\* Decimal text of a natural number.
RECURSIVE DecimalText(_)
DecimalText(n) ==
    (IF n >= 10 THEN DecimalText(n \div 10) ELSE <<>>) \o <<DigitChars[(n % 10) + 1]>>

ExpectedLine(st) ==
    IF st.stmt = "VariableDeclaration"
    THEN (IF st.mutable THEN <<"l","e","t"," ">> ELSE <<"c","o","n","s","t"," ">>)
         \o st.name \o <<" ", "=", " ">>
         \o (IF st.value.kind = "Str" THEN <<"'">> \o st.value.str \o <<"'">>
             ELSE DecimalText(st.value.int))
         \o <<"\n">>
    ELSE IF st.arguments[1].kind = "Str"
    THEN <<"c","o","n","s","o","l","e",".","l","o","g","(",Backquote>> \o interpolate(st.arguments[1].str).str
         \o <<Backquote,")","\n">>
    ELSE <<>>

\* C7: generate_js returns the concatenation, in AST order, of one
\* newline-terminated line per statement: const or let <name> = <value> for
\* a declaration, one console.log line per print call with a string
\* argument, nothing for a print call with a non-string argument.
C7_OneLinePerStatement ==
    pc = "done" => js_code = Concat([k \in 1..Len(ast) |-> ExpectedLine(ast[k])])

C7_Witness ==
    /\ pc = "done"
    /\ Len(ast) = 2
    /\ ast[1].stmt = "VariableDeclaration" /\ ast[1].mutable
    /\ ast[2].stmt = "FunctionCall" /\ ast[2].arguments[1].kind = "Int"
    /\ js_code = <<"l","e","t"," ","n"," ","="," ","5","\n">>

\* The number of tokens from the cursor to the end, and the number the fixed
\* shape of the statement at the cursor takes: var [mut] name = literal ;
\* or print ( literal ) as the parser counts them.
Remaining == Len(tokens) - pos + 1

ShapeLen ==
    IF tokens[pos] = TVar
    THEN IF pos + 1 <= Len(tokens) /\ tokens[pos + 1] = TMut THEN 6 ELSE 5
    ELSE 4

AtStatement == pc = "parsing" /\ pos <= Len(tokens) /\ tokens[pos] \in {TVar, TPrint}

\* C8 as stated: if the tokens end before every token of the statement's
\* shape is consumed, parser aborts and returns no AST.
C8_TruncatedAborts ==
    [][AtStatement /\ Remaining < ShapeLen => pc' = "parse_panic"]_vars

\* C8 amended: parser aborts when the tokens end before the literal of the
\* statement is consumed; when only the last token of the shape is missing
\* and the step does not panic, the statement is added and the parse ends.
C8_MissingLiteralAborts ==
    [][/\ AtStatement /\ Remaining < ShapeLen - 1
            => pc' = "parse_panic" /\ ast' = ast
       /\ AtStatement /\ Remaining = ShapeLen - 1 /\ pc' = "parsing"
            => Len(ast') = Len(ast) + 1 /\ pos' = Len(tokens) + 1]_vars

C8_Witness ==
    /\ pc = "parse_panic"
    /\ tokens[pos] = TVar
    /\ Remaining = 3
    /\ tokens[pos + 1].type = "Identifier"
    /\ tokens[pos + 2] = TEquals

\* Whether a digit run denotes a value of at most 2147483647, by its digits.
RECURSIVE StripZeros(_)
StripZeros(run) ==
    IF run # <<>> /\ Head(run) = "0" THEN StripZeros(Tail(run)) ELSE run

I32MaxDigits == <<"2","1","4","7","4","8","3","6","4","7">>

RECURSIVE DigitsLeq(_, _)
DigitsLeq(a, b) ==
    IF a = <<>> THEN TRUE
    ELSE IF digitValue(Head(a)) < digitValue(Head(b)) THEN TRUE
    ELSE IF digitValue(Head(a)) > digitValue(Head(b)) THEN FALSE
    ELSE DigitsLeq(Tail(a), Tail(b))

FitsI32(run) ==
    LET z == StripZeros(run) IN
    Len(z) < Len(I32MaxDigits) \/ (Len(z) = Len(I32MaxDigits) /\ DigitsLeq(z, I32MaxDigits))

IsIntLiteral(tok) == tok.type = "IntLiteral"

\* C9: for every maximal digit run the lexer scans, it emits IntLiteral(v)
\* with v the base-10 value of the run when that value is at most
\* 2147483647, in input order, and aborts when some run is larger; no
\* IntLiteral holds a truncated or wrapped value.
C9_IntLiteralExactOrAbort ==
    pc # "start" =>
        LET runs == RunsOf(code, DigitSet)
            ints == SelectSeq(tokens, IsIntLiteral) IN
        IF \A k \in 1..Len(runs) : FitsI32(runs[k])
        THEN /\ pc # "lex_panic"
             /\ Len(ints) = Len(runs)
             /\ \A k \in 1..Len(runs) : ints[k].value = DecimalValue(runs[k])
        ELSE pc = "lex_panic" /\ tokens = <<>>

C9_Witness ==
    /\ pc = "lex_panic"
    /\ code = <<"v","a","r"," ","n"," ","="," ","2","1","4","7","4","8","3","6","4","8",";">>

\* C10: for every source that is a sequence of well-formed statements, the
\* AST has exactly one statement per source statement, in source order; a
\* statement that directly follows a print call is not lost.
StmtTable == {<<JoinLines(ss), ss>> : ss \in StmtSeqs}

StmtKind(text) ==
    IF SubSeq(text, 1, 3) = kwVar THEN "VariableDeclaration" ELSE "FunctionCall"

C10_OneStatementPerSource ==
    \A e \in StmtTable :
        code = e[1] /\ pc = "parsed" =>
            /\ Len(ast) = Len(e[2])
            /\ \A k \in 1..Len(e[2]) : ast[k].stmt = StmtKind(e[2][k])

====
